---- MODULE Spec2Model ----
(***************************************************************************)
(* A model of src/post.ipynb: the analytic detection-efficiency model      *)
(* (get_delta ... get_completeness), the accumulation of the completeness  *)
(* map over the stellar catalog, and the population-inference functions    *)
(* (population_model, lnlike, lnprob, nll), and the posterior sampling     *)
(* cell (burn-in, sampler.reset(), production).                            *)
(*                                                                         *)
(* The notebook computes in numpy float64.  The model computes in a        *)
(* decimal floating-point format with the same structure (NaN, +inf, -inf, *)
(* finite values rounded to nearest-even after every operation, overflow   *)
(* to infinity, underflow to zero) but five significant decimal digits     *)
(* instead of 53 bits.  There is one zero (no signed zero).                *)
(***************************************************************************)
EXTENDS Integers, Sequences, FiniteSets, TLC

(***************************************************************************)
(* ------------------------- float64 arithmetic -------------------------  *)
(* A value is [k, m, e]: k = "nan", k = "inf" (m = 1 or -1), or k = "fin"  *)
(* with value m * 10^e, where m = 0 (and e = 0) or 10^4 <= |m| < 10^5.     *)
(***************************************************************************)
Ten3 == 1000
Ten4 == 10000
Ten5 == 100000
\* Largest and smallest decimal exponent of a finite non-zero float64
\* (1.8e308, 4.9e-324).
MaxExp == 308
MinExp == 324

\* Every operation evaluates each operand once: the operand is bound to its
\* value (a \in {x}) before the operation proper is applied to it.

NaN == [k |-> "nan", m |-> 0, e |-> 0]
PInf == [k |-> "inf", m |-> 1, e |-> 0]
NInf == [k |-> "inf", m |-> -1, e |-> 0]
Zero == [k |-> "fin", m |-> 0, e |-> 0]
One == [k |-> "fin", m |-> 10000, e |-> -4]
Two == [k |-> "fin", m |-> 20000, e |-> -4]
Half == [k |-> "fin", m |-> 50000, e |-> -5]

Abs(a) == IF a < 0 THEN -a ELSE a
Sgn(a) == IF a < 0 THEN -1 ELSE IF a > 0 THEN 1 ELSE 0
Inf(s) == IF s < 0 THEN NInf ELSE PInf

IsNaN(x) == x.k = "nan"
IsInf(x) == x.k = "inf"
\* np.isfinite
IsFinite(x) == x.k = "fin"
IsZero(x) == x.k = "fin" /\ x.m = 0

\* Number of decimal digits of a >= 0 (a < 2^31).
NDigits(a) ==
  IF a < 10 THEN 1 ELSE IF a < 100 THEN 2 ELSE IF a < 1000 THEN 3
  ELSE IF a < 10000 THEN 4 ELSE IF a < 100000 THEN 5
  ELSE IF a < 1000000 THEN 6 ELSE IF a < 10000000 THEN 7
  ELSE IF a < 100000000 THEN 8 ELSE IF a < 1000000000 THEN 9 ELSE 10

\* A finite value of sign s, mantissa a in [10^4, 10^5] and exponent e, with
\* overflow to infinity and underflow to zero.
PackV(s, a, e) ==
  IF e + 4 > MaxExp THEN Inf(s)
  ELSE IF e + 4 < -MinExp THEN Zero
  ELSE [k |-> "fin", m |-> s * a, e |-> e]
Pack(s, a, e) ==
  CHOOSE res \in {IF b = Ten5 THEN PackV(s, Ten4, e + 1) ELSE PackV(s, b, e) :
                    b \in {a}} : TRUE

\* Round half to even of (q + r/p), where st says that the exact remainder is
\* a little more than r.
RoundQ(q, r, p, st) ==
  IF 2 * r > p \/ (2 * r = p /\ (st \/ q % 2 = 1)) THEN q + 1 ELSE q

\* The float nearest to a * 10^e, a having sh + 5 digits (st: the exact
\* magnitude is a little more than |a|).
NormV(a, sh, e, st) ==
  IF a = 0 THEN Zero
  ELSE Pack(Sgn(a),
            IF sh <= 0 THEN Abs(a) * 10^(-sh)
            ELSE RoundQ(Abs(a) \div 10^sh, Abs(a) % 10^sh, 10^sh, st),
            e + sh)
Norm(m, e, st) ==
  CHOOSE res \in {NormV(a, sh, e, st) :
                    a \in {m}, sh \in {NDigits(Abs(m)) - 5}} : TRUE

\* The float of the decimal literal m * 10^e, |m| < 10^5.
Flt(m, e) ==
  CHOOSE res \in {IF m = 0 THEN Zero
                  ELSE [k |-> "fin", m |-> m * 10^s, e |-> e - s] :
                    s \in {5 - NDigits(Abs(m))}} : TRUE

FNeg(x) ==
  CHOOSE res \in {IF a.k = "nan" THEN a ELSE [a EXCEPT !.m = -a.m] :
                    a \in {x}} : TRUE

\* x + y for finite non-zero x, y with x.e >= y.e: y is shifted right by
\* Shift digits, the digits shifted out are remembered in Sticky.
Shift(d) == IF d <= 4 THEN 1 ELSE IF d <= 9 THEN 10^(d - 4) ELSE Ten5 * 10
Sticky(x, y) == Abs(y.m) % Shift(x.e - y.e) # 0
Sum(x, y) ==
  IF x.e - y.e <= 4 THEN x.m * Ten4 + y.m * 10^(4 - (x.e - y.e))
  ELSE Sgn(x.m) * (Abs(x.m) * Ten4
                   + (IF Sgn(x.m) = Sgn(y.m)
                      THEN Abs(y.m) \div Shift(x.e - y.e)
                      ELSE IF Sticky(x, y)
                           THEN -(Abs(y.m) \div Shift(x.e - y.e)) - 1
                           ELSE -(Abs(y.m) \div Shift(x.e - y.e))))
AddFin(x, y) == Norm(Sum(x, y), x.e - 4, Sticky(x, y))

AddV(x, y) ==
  IF IsNaN(x) \/ IsNaN(y) THEN NaN
  ELSE IF IsInf(x) THEN (IF IsInf(y) /\ y.m # x.m THEN NaN ELSE x)
  ELSE IF IsInf(y) THEN y
  ELSE IF x.m = 0 THEN y
  ELSE IF y.m = 0 THEN x
  ELSE AddFin(IF x.e >= y.e THEN x ELSE y, IF x.e >= y.e THEN y ELSE x)
FAdd(x, y) ==
  CHOOSE res \in {AddV(a, b) : a \in {x}, b \in {y}} : TRUE

FSub(x, y) == FAdd(x, FNeg(y))

\* x * y for finite non-zero x, y: the 10-digit product of the mantissas a
\* and b is formed in two limbs (MulHi * 10^3 + MulLo) and rounded once.
MulHi(a, b) == a * (b \div Ten3) + (a * (b % Ten3)) \div Ten3
MulLo(a, b) == (a * (b % Ten3)) % Ten3
MulRound(s, T, Bl, n, e) ==
  Pack(s, RoundQ(T \div 10^n, (T % 10^n) * Ten3 + Bl, 10^n * Ten3, FALSE),
       e + n + 3)
MulFin(x, y) ==
  CHOOSE res \in {MulRound(Sgn(x.m) * Sgn(y.m), T, MulLo(Abs(x.m), Abs(y.m)),
                           NDigits(T) - 5, x.e + y.e) :
                    T \in {MulHi(Abs(x.m), Abs(y.m))}} : TRUE

MulV(x, y) ==
  IF IsNaN(x) \/ IsNaN(y) THEN NaN
  ELSE IF IsInf(x) \/ IsInf(y)
       THEN (IF IsZero(x) \/ IsZero(y) THEN NaN ELSE Inf(Sgn(x.m) * Sgn(y.m)))
  ELSE IF x.m = 0 \/ y.m = 0 THEN Zero
  ELSE MulFin(x, y)
FMul(x, y) ==
  CHOOSE res \in {MulV(a, b) : a \in {x}, b \in {y}} : TRUE

\* n more digits of the long division of r by b, appended to q.
RECURSIVE DivSteps(_, _, _, _)
DivSteps(q, r, b, n) ==
  IF n = 0 THEN <<q, r>>
  ELSE CHOOSE res \in {DivSteps(q2, r2, b, n - 1) :
                        q2 \in {q * 10 + (r * 10) \div b},
                        r2 \in {(r * 10) % b}} : TRUE

\* x / y for finite non-zero x, y, to n digits after the first.
DivFin(x, y, n) ==
  CHOOSE res \in {Pack(Sgn(x.m) * Sgn(y.m),
                       RoundQ(qr[1], qr[2], Abs(y.m), FALSE), x.e - y.e - n) :
                    qr \in {DivSteps(Abs(x.m) \div Abs(y.m),
                                     Abs(x.m) % Abs(y.m), Abs(y.m), n)}} : TRUE

\* numpy division: x / 0 is +-inf (nan for 0 / 0) with a warning, not an
\* exception.
DivV(x, y) ==
  IF IsNaN(x) \/ IsNaN(y) THEN NaN
  ELSE IF IsInf(x) THEN (IF IsInf(y) THEN NaN
                         ELSE Inf(x.m * (IF y.m < 0 THEN -1 ELSE 1)))
  ELSE IF IsInf(y) THEN Zero
  ELSE IF y.m = 0 THEN (IF x.m = 0 THEN NaN ELSE Inf(Sgn(x.m)))
  ELSE IF x.m = 0 THEN Zero
  ELSE DivFin(x, y, IF Abs(x.m) >= Abs(y.m) THEN 4 ELSE 5)
FDiv(x, y) ==
  CHOOSE res \in {DivV(a, b) : a \in {x}, b \in {y}} : TRUE

\* The order of two values that are not NaN: -1, 0 or 1.
Rank(v) == IF IsInf(v) THEN 2 * v.m ELSE Sgn(v.m)
CmpV(x, y) ==
  IF Rank(x) # Rank(y) THEN Sgn(Rank(x) - Rank(y))
  ELSE IF IsInf(x) \/ x.m = 0 THEN 0
  ELSE IF x.e # y.e THEN Sgn(x.m) * Sgn(x.e - y.e)
  ELSE Sgn(x.m - y.m)
Cmp(x, y) ==
  CHOOSE res \in {IF IsNaN(a) \/ IsNaN(b) THEN 2 ELSE CmpV(a, b) :
                    a \in {x}, b \in {y}} : TRUE

\* Comparisons: every comparison with a NaN is False (Cmp is 2).
FLt(x, y) == Cmp(x, y) = -1
FLe(x, y) == Cmp(x, y) \in {-1, 0}
FGt(x, y) == Cmp(x, y) = 1
FGe(x, y) == Cmp(x, y) \in {0, 1}
FEq(x, y) == Cmp(x, y) = 0

\* A numpy boolean used as a factor: True is 1.0, False is 0.0.
FBool(b) == IF b THEN One ELSE Zero

\* The integer nearest to a finite x with |x| < 10^9.
RoundV(x) ==
  IF x.m = 0 THEN 0
  ELSE IF x.e >= 0 THEN x.m * 10^x.e
  ELSE IF x.e < -5 THEN 0
  ELSE Sgn(x.m) * RoundQ(Abs(x.m) \div 10^(-x.e), Abs(x.m) % 10^(-x.e),
                         10^(-x.e), FALSE)
FRound(x) == CHOOSE res \in {RoundV(a) : a \in {x}} : TRUE

\* A finite x whose value is an integer (below 10^9 in magnitude).
IsIntV(x) ==
  /\ x.k = "fin"
  /\ \/ x.m = 0
     \/ x.e >= 0 /\ x.e <= 4
     \/ x.e < 0 /\ x.e >= -4 /\ x.m % 10^(-x.e) = 0
IsInt(x) == CHOOSE res \in {IsIntV(a) : a \in {x}} : TRUE

\* e, 1/e, ln 2, ln 10 and pi to five digits.
EulerE == [k |-> "fin", m |-> 27183, e |-> -4]
InvE == [k |-> "fin", m |-> 36788, e |-> -5]
Ln2 == [k |-> "fin", m |-> 69315, e |-> -5]
Ln10 == [k |-> "fin", m |-> 23026, e |-> -4]
Pi == [k |-> "fin", m |-> 31416, e |-> -4]

\* acc * b^n for an integer n >= 0, by squaring.
RECURSIVE PowAcc(_, _, _)
PowStep(acc, b, n) ==
  IF n = 0 THEN acc
  ELSE CHOOSE res \in {IF n % 2 = 1 THEN PowAcc(r, b, n - 1)
                       ELSE PowAcc(acc, r, n \div 2) :
                         r \in {FMul(IF n % 2 = 1 THEN acc ELSE b, b)}} : TRUE
PowAcc(acc, b, n) ==
  CHOOSE res \in {PowStep(a, c, j) : a \in {acc}, c \in {b}, j \in {n}} : TRUE
PowN(b, n) == PowAcc(One, b, n)

\* n steps of Newton's iteration for the square root of a, from g.
RECURSIVE SqrtSteps(_, _, _)
SqrtSteps(a, g, n) ==
  IF n = 0 THEN g
  ELSE CHOOSE res \in {SqrtSteps(a, h, j) :
                         h \in {FMul(Half, FAdd(g, FDiv(a, g)))},
                         j \in {n - 1}} : TRUE

\* np.sqrt: nan for a negative argument.
SqrtV(x) ==
  IF IsNaN(x) THEN NaN
  ELSE IF x.m < 0 THEN NaN
  ELSE IF IsInf(x) \/ x.m = 0 THEN x
  ELSE SqrtSteps(x, IF (x.e + 4) % 2 = 0 THEN Flt(2, (x.e + 4) \div 2)
                    ELSE Flt(6, (x.e + 3) \div 2), 6)
FSqrt(x) == CHOOSE res \in {SqrtV(a) : a \in {x}} : TRUE

\* 1 + f/1 (1 + f/2 (1 + ... (1 + f/j acc))): the Taylor series of exp.
RECURSIVE ExpSeries(_, _, _)
ExpSeries(f, j, acc) ==
  IF j = 0 THEN acc
  ELSE CHOOSE res \in {ExpSeries(f, i, a) :
                         i \in {j - 1},
                         a \in {FAdd(One, FMul(FDiv(f, Flt(j, 0)), acc))}} : TRUE

\* exp(x) = e^n * exp(x - n) for the integer n nearest to x, |x| < 1000.
ExpFin(x, n) ==
  IF n > 709 THEN PInf
  ELSE IF n < -745 THEN Zero
  ELSE FMul(PowN(IF n < 0 THEN InvE ELSE EulerE, Abs(n)),
            ExpSeries(FSub(x, Flt(n, 0)), 7, One))

\* np.exp.
ExpV(x) ==
  IF IsNaN(x) THEN NaN
  ELSE IF IsInf(x) \/ (x.m # 0 /\ x.e >= -1)
       THEN (IF x.m > 0 THEN PInf ELSE Zero)
  ELSE CHOOSE res \in {ExpFin(x, n) : n \in {FRound(x)}} : TRUE
FExp(x) == CHOOSE res \in {ExpV(a) : a \in {x}} : TRUE

\* 1/j + z2 (1/(j+2) + z2 (... + z2 acc)): the series of atanh(z) / z.
RECURSIVE LogSeries(_, _, _)
LogSeries(z2, j, acc) ==
  IF j < 1 THEN acc
  ELSE CHOOSE res \in {LogSeries(z2, i, a) :
                         i \in {j - 2},
                         a \in {FAdd(FDiv(One, Flt(j, 0)), FMul(z2, acc))}} : TRUE

\* ln of a finite r in [0.7, 1.42): 2 atanh(z) for z = (r - 1) / (r + 1).
LogNear1(r) ==
  CHOOSE res \in {FMul(Two, FMul(z, LogSeries(FMul(z, z), 9, Zero))) :
                    z \in {FDiv(FSub(r, One), FAdd(r, One))}} : TRUE

\* ln of a finite x > 0: x = r * 2^j * 10^E with r in [0.7, 1.42).
LogBig(a) == a >= 70711
LogJ(a) ==
  IF LogBig(a) \/ a < 14142 THEN 0
  ELSE IF a < 28284 THEN 1 ELSE IF a < 56569 THEN 2 ELSE 3
LogFin(x) ==
  FAdd(LogNear1(FDiv([k |-> "fin", m |-> x.m,
                      e |-> IF LogBig(x.m) THEN -5 ELSE -4],
                     Flt(2^LogJ(x.m), 0))),
       FAdd(FMul(Flt(LogJ(x.m), 0), Ln2),
            FMul(Flt(IF LogBig(x.m) THEN x.e + 5 ELSE x.e + 4, 0), Ln10)))

\* np.log: -inf at 0 and nan below 0, with a warning and no exception.
LogV(x) ==
  IF IsNaN(x) THEN NaN
  ELSE IF x.m < 0 THEN NaN
  ELSE IF IsInf(x) THEN PInf
  ELSE IF x.m = 0 THEN NInf
  ELSE LogFin(x)
FLog(x) == CHOOSE res \in {LogV(a) : a \in {x}} : TRUE

\* The largest integer exponent raised by repeated multiplication.
MaxIntPow == 64

\* x ** y for finite non-zero x and y: by repeated multiplication for a
\* small integer y, else sign * exp(y * ln |x|).
PowInt(x, y) ==
  CHOOSE res \in {IF y.m > 0 THEN p ELSE FDiv(One, p) :
                    p \in {PowN(x, Abs(FRound(y)))}} : TRUE
PowFin(x, y) ==
  IF IsInt(y) /\ Abs(FRound(y)) <= MaxIntPow THEN PowInt(x, y)
  ELSE IF x.m < 0 /\ ~IsInt(y) THEN NaN
  ELSE CHOOSE res \in {IF x.m < 0 /\ FRound(y) % 2 = 1 THEN FNeg(v) ELSE v :
                         v \in {FExp(FMul(y, FLog([x EXCEPT !.m = Abs(x.m)])))}} : TRUE

\* x ** y of numpy float64 (C pow).
PowV(x, y) ==
  IF IsZero(y) THEN One
  ELSE IF x = One THEN One
  ELSE IF IsNaN(x) \/ IsNaN(y) THEN NaN
  ELSE IF IsInf(y)
       THEN (IF x = FNeg(One) THEN One
             ELSE IF (IsFinite(x) /\ (x.m = 0 \/ x.e < -4)) = (y.m > 0)
                  THEN Zero ELSE PInf)
  ELSE IF IsZero(x) THEN (IF y.m > 0 THEN Zero ELSE PInf)
  ELSE IF IsInf(x)
       THEN (IF y.m < 0 THEN Zero
             ELSE IF x.m < 0 /\ IsInt(y) /\ FRound(y) % 2 = 1 THEN NInf
             ELSE PInf)
  ELSE PowFin(x, y)
FPow(x, y) ==
  CHOOSE res \in {PowV(a, b) : a \in {x}, b \in {y}} : TRUE

(***************************************************************************)
(* ------------------- the detection efficiency model -------------------  *)
(***************************************************************************)
\* The outcome of a call that raises an exception instead of returning.
Raised == [k |-> "raise", m |-> 0, e |-> 0]
IsRaised(x) == x.k = "raise"

\* The index j of np.interp's search: 0 when x < xp[1], Len(xp) + 1 when
\* x > xp[Len(xp)], else the last j with xp[j] <= x.
SearchIdx(x, xp) ==
  IF FLt(x, xp[1]) THEN 0
  ELSE IF FGt(x, xp[Len(xp)]) THEN Len(xp) + 1
  ELSE CHOOSE j \in 1..Len(xp) :
         /\ FLe(xp[j], x)
         /\ j = Len(xp) \/ FLt(x, xp[j + 1])

\* np.interp(x, xp, fp) for one x: linear interpolation, the end values
\* outside the table, nan for a nan x, ValueError for an empty table.
interpV(x, xp, fp) ==
  IF Len(xp) = 0 THEN Raised
  ELSE IF IsNaN(x) THEN NaN
  ELSE LET at(j) ==
             IF j = 0 THEN fp[1]
             ELSE IF j >= Len(xp) THEN fp[Len(xp)]
             ELSE IF FEq(xp[j], x) THEN fp[j]
             ELSE LET slope == FDiv(FSub(fp[j + 1], fp[j]),
                                    FSub(xp[j + 1], xp[j]))
                      r1 == FAdd(FMul(slope, FSub(x, xp[j])), fp[j])
                      r2 == FAdd(FMul(slope, FSub(x, xp[j + 1])), fp[j + 1])
                  IN  IF ~IsNaN(r1) THEN r1
                      ELSE IF ~IsNaN(r2) THEN r2
                      ELSE IF FEq(fp[j], fp[j + 1]) THEN fp[j]
                      ELSE NaN
       IN  CHOOSE res \in {at(j) : j \in {SearchIdx(x, xp)}} : TRUE
interp(x, xp, fp) ==
  CHOOSE res \in {interpV(a, b, c) : a \in {x}, b \in {xp}, c \in {fp}} : TRUE

\* get_duration: Equation (1), the transit duration in the units of period.
get_duration(period, aor, e) ==
  FDiv(FMul(FMul(Flt(25, -2), period), FSqrt(FSub(One, FPow(e, Two)))), aor)

\* The default argument Go4pi = 2945.4625385377644 / (4 * np.pi * np.pi).
Go4pi == FDiv(Flt(29455, -1), FMul(FMul(Flt(4, 0), Pi), Pi))

\* get_a: the semi-major axis in Solar radii.
get_a(period, mstar) ==
  FPow(FMul(FMul(FMul(Go4pi, period), period), mstar), FDiv(One, Flt(3, 0)))

\* The default arguments c and s of get_delta, and its factor 0.84.
delta_c == Flt(10874, -4)
delta_s == Flt(10187, -4)
delta_limb == Flt(84, -2)

\* get_delta with the sign of the public KeplerPORTs code: c - s * k.
get_delta_minus(k) ==
  FMul(delta_limb, FMul(FMul(k, k), FSub(delta_c, FMul(delta_s, k))))

\* get_delta: the expected transit depth for the radius ratio k.
get_delta(k) ==
  LET delta_max == FMul(FMul(k, k), FAdd(delta_c, FMul(delta_s, k)))
  IN  FMul(delta_limb, delta_max)

\* The durations (hours) of the rrmscdpp* and mesthres* columns: the list
\* thresh.
thresh ==
  << Flt(15, -1), Flt(2, 0), Flt(25, -1), Flt(3, 0), Flt(35, -1), Flt(45, -1),
     Flt(5, 0), Flt(6, 0), Flt(75, -1), Flt(9, 0), Flt(105, -1), Flt(12, 0),
     Flt(125, -1), Flt(15, 0) >>
\* cdpp_vals and mesthres_vals, cut to the columns the star row holds.
cdpp_vals(star) == SubSeq(thresh, 1, Len(star.cdpp))
mesthres_vals(star) == SubSeq(thresh, 1, Len(star.mesthres))

\* The default argument re of get_mes: the Earth radius in Solar radii.
re == Flt(9171, -6)

\* get_mes: the multiple event statistic of a transit of duration tau hours.
get_mes(star, period, rp, tau) ==
  LET k == FDiv(FMul(rp, re), star.radius)
      ntrn == FDiv(FMul(star.dataspan, star.dutycycle), period)
      mes(sigma) ==
        LET snr == FDiv(FMul(get_delta(k), Flt(1, 6)), sigma)
        IN  IF IsRaised(sigma) THEN Raised ELSE FMul(snr, FSqrt(ntrn))
  IN  CHOOSE res \in
        {mes(sigma) : sigma \in {interp(tau, cdpp_vals(star), star.cdpp)}} : TRUE

\* pgam = gamma(4.65, loc=0.0, scale=0.98): its cdf, tabulated at pgam_x and
\* interpolated linearly; 0 below 0 and 1 from 25 on.
pgam_x ==
  << Zero, Flt(5, -1), Flt(1, 0), Flt(15, -1), Flt(2, 0), Flt(25, -1),
     Flt(3, 0), Flt(35, -1), Flt(4, 0), Flt(5, 0), Flt(6, 0), Flt(7, 0),
     Flt(8, 0), Flt(9, 0), Flt(10, 0), Flt(12, 0), Flt(14, 0), Flt(16, 0),
     Flt(18, 0), Flt(20, 0), Flt(25, 0) >>
pgam_p ==
  << Zero, Flt(43167, -8), Flt(71870, -7), Flt(31617, -6), Flt(81021, -6),
     Flt(15501, -5), Flt(24739, -5), Flt(34950, -5), Flt(45293, -5),
     Flt(63957, -5), Flt(78034, -5), Flt(87417, -5), Flt(93141, -5),
     Flt(96410, -5), Flt(98183, -5), Flt(99570, -5), Flt(99907, -5),
     Flt(99981, -5), Flt(99996, -5), Flt(99999, -5), One >>
pgam_cdf(x) == interp(x, pgam_x, pgam_p)

\* get_pdet: Equation (5), the detection efficiency.
get_pdet(star, aor, period, rp, e) ==
  LET pdet(mes, mest) ==
        LET x == FSub(FSub(mes, Flt(41, -1)), FSub(mest, Flt(71, -1)))
        IN  IF IsRaised(mes) \/ IsRaised(mest) THEN Raised ELSE pgam_cdf(x)
      at(tau) ==
        CHOOSE res \in
          {pdet(mes, mest) :
             mes \in {get_mes(star, period, rp, tau)},
             mest \in {interp(tau, mesthres_vals(star), star.mesthres)}} : TRUE
  IN  CHOOSE res \in
        {at(tau) : tau \in {FMul(get_duration(period, aor, e), Flt(24, 0))}} : TRUE

\* get_pwin: Equation (6), the window function.
get_pwin(star, period) ==
  LET M == FDiv(star.dataspan, period)
      f == star.dutycycle
      omf == FSub(One, f)
      t1 == FPow(omf, M)
      t2 == FMul(FMul(M, f), FPow(omf, FSub(M, One)))
      t3 == FMul(FMul(FMul(FMul(FMul(Half, M), FSub(M, One)), f), f),
                 FPow(omf, FSub(M, Two)))
      masked(pw) == FMul(pw, FBool(FGe(pw, Zero) /\ FGe(M, Two)))
  IN  CHOOSE res \in
        {masked(pw) : pw \in {FSub(FSub(FSub(One, t1), t2), t3)}} : TRUE

\* get_pgeom: the geometric transit probability.
get_pgeom(aor, e) ==
  FMul(FDiv(One, FMul(aor, FSub(One, FMul(e, e)))), FBool(FGt(aor, One)))

\* get_completeness: all the completeness effects combined.
get_completeness(star, period, rp, e, with_geom) ==
  LET pwin == get_pwin(star, period)
      probability(pdet, pgeom) ==
        IF IsRaised(pdet) THEN Raised
        ELSE IF ~with_geom THEN FMul(pdet, pwin)
        ELSE FMul(FMul(pdet, pwin), pgeom)
      at(aor) ==
        CHOOSE res \in
          {probability(pdet, pgeom) :
             pdet \in {get_pdet(star, aor, period, rp, e)},
             pgeom \in {get_pgeom(aor, e)}} : TRUE
  IN  CHOOSE res \in
        {at(aor) : aor \in {FDiv(get_a(period, star.mass), star.radius)}} : TRUE

(***************************************************************************)
(* ------------------------------ the state ------------------------------ *)
(* pc    where the run is                                                  *)
(* arg   the arguments of the function being called                        *)
(* ret   what the call returned (Raised: it raised)                        *)
(* stlr  the stellar catalog, in the order iterrows() visits it            *)
(* idx   how many rows of stlr the accumulation loop has consumed          *)
(* comp  the global completeness map, comp[i][j] at period[i], rp[j]       *)
(* star  the global loop variable star                                     *)
(* hist  the maps of the builds completed so far, with their catalogs; in  *)
(*       the inference calls, the local value the caller tested (ll in     *)
(*       lnlike, lnlike(theta) in lnprob and nll)                          *)
(***************************************************************************)
VARIABLES pc, arg, ret, stlr, idx, comp, star, hist

vars == <<pc, arg, ret, stlr, idx, comp, star, hist>>

\* Number of rrmscdpp* (and of mesthres*) columns of the catalog.
NCols == Len(thresh)
Flat(v) == [i \in 1..NCols |-> v]
\* A curve from a at 1.5 h in steps of d per column.
Ramp(a, d) == [i \in 1..NCols |-> FAdd(a, FMul(Flt(i - 1, 0), d))]

Star(mass, radius, dataspan, dutycycle, cdpp, mesthres) ==
  [mass |-> mass, radius |-> radius, dataspan |-> dataspan,
   dutycycle |-> dutycycle, cdpp |-> cdpp, mesthres |-> mesthres]

\* Rows that satisfy the Star invariants: positive finite mass and radius,
\* duty cycle in [0, 1], finite curves.
Sun == Star(One, One, Flt(1460, 0), Flt(84, -2), Flat(Flt(30, 0)), Flat(Flt(71, -1)))
Dwarf == Star(Half, Half, Flt(1000, 0), Flt(9, -1),
              Ramp(Flt(120, 0), Flt(-6, 0)), Ramp(Flt(71, -1), Flt(5, -2)))
FullDuty == Star(One, One, Flt(800, 0), One, Flat(Flt(50, 0)), Flat(Flt(71, -1)))
Giant == Star(Flt(12, -1), Flt(80, 0), Flt(1460, 0), Flt(7, -1),
              Flat(Flt(200, 0)), Flat(Flt(8, 0)))
FStar == Star(Flt(11, -1), Flt(12, -1), Flt(1400, 0), Flt(8, -1),
              Flat(Flt(40, 0)), Flat(Flt(71, -1)))
ValidStars == {Sun, Dwarf, FullDuty, Giant, FStar}

\* Rows that break them.
InvalidStars ==
  { [Sun EXCEPT !.mass = NaN], [Sun EXCEPT !.mass = Zero],
    [Sun EXCEPT !.mass = PInf], [Sun EXCEPT !.radius = NaN],
    [Sun EXCEPT !.radius = Flt(-1, 0)], [Sun EXCEPT !.radius = PInf],
    [Sun EXCEPT !.dataspan = NaN], [Sun EXCEPT !.dutycycle = NaN],
    [Sun EXCEPT !.cdpp = Flat(NaN)], [Sun EXCEPT !.cdpp = Flat(PInf)],
    [Sun EXCEPT !.mesthres = Flat(NaN)],
    [Sun EXCEPT !.cdpp = <<>>, !.mesthres = <<>>] }

NoArg == [none |-> TRUE]
NoStar == [none |-> TRUE]
NoMap == <<>>

(***************************************************************************)
(* A call of get_delta(k), k = kn / 1000.                                  *)
(***************************************************************************)
MaxKn == 60

InitDelta ==
  /\ pc = "call"
  /\ arg \in {[k |-> Flt(kn, -3)] : kn \in 0..MaxKn}
  /\ ret = NaN
  /\ stlr = <<>> /\ idx = 0 /\ comp = NoMap /\ star = NoStar /\ hist = <<>>

CallGetDelta ==
  /\ pc = "call"
  /\ ret' = get_delta(arg.k)
  /\ pc' = "done"
  /\ UNCHANGED <<arg, stlr, idx, comp, star, hist>>

NextDelta == CallGetDelta

SpecDelta == InitDelta /\ [][NextDelta]_vars

(***************************************************************************)
(* A call of get_pgeom(aor, e).                                            *)
(***************************************************************************)
AorValues ==
  { Flt(-2, 0), Flt(-5, -1), Zero, Flt(1, -3), Half, Flt(99999, -5), One,
    Flt(10001, -4), Flt(15, -1), Two, Flt(57, 0), Flt(215, 0), PInf, NaN }
EccValues == {Zero, Flt(1, -1), Half, Flt(9, -1), Flt(995, -3)}

InitGeom ==
  /\ pc = "call"
  /\ arg \in {[aor |-> a, e |-> e] : a \in AorValues, e \in EccValues}
  /\ ret = NaN
  /\ stlr = <<>> /\ idx = 0 /\ comp = NoMap /\ star = NoStar /\ hist = <<>>

CallGetPgeom ==
  /\ pc = "call"
  /\ ret' = get_pgeom(arg.aor, arg.e)
  /\ pc' = "done"
  /\ UNCHANGED <<arg, stlr, idx, comp, star, hist>>

NextGeom == CallGetPgeom

SpecGeom == InitGeom /\ [][NextGeom]_vars

(***************************************************************************)
(* A call of get_completeness(star, period, rp, e, with_geom).             *)
(***************************************************************************)
PeriodValues == {Flt(50, 0), Flt(175, 0), Flt(300, 0), Flt(700, 0), Flt(1000, 0)}
RpValues == {Flt(75, -2), One, Flt(25, -1)}
CompEcc == {Zero, Half, Flt(995, -3)}

InitComp ==
  /\ pc = "call"
  /\ arg \in {[star |-> st, period |-> p, rp |-> r, e |-> e, with_geom |-> g] :
                st \in ValidStars \cup InvalidStars, p \in PeriodValues,
                r \in RpValues, e \in CompEcc, g \in BOOLEAN}
  /\ ret = NaN
  /\ stlr = <<>> /\ idx = 0 /\ comp = NoMap /\ star = NoStar /\ hist = <<>>

CallGetCompleteness ==
  /\ pc = "call"
  /\ ret' = get_completeness(arg.star, arg.period, arg.rp, arg.e, arg.with_geom)
  /\ pc' = "done"
  /\ UNCHANGED <<arg, stlr, idx, comp, star, hist>>

NextComp == CallGetCompleteness

SpecComp == InitComp /\ [][NextComp]_vars
(***************************************************************************)
(* Two calls of get_completeness(star, period, rp, e) that differ in the   *)
(* planet radius only, r1 <= r2; hist keeps what the first one returned.   *)
(***************************************************************************)
MonoRp ==
  {Half, Flt(75, -2), One, Flt(25, -1), Flt(10, 0), Flt(200, 0)}
MonoPairs == {r \in MonoRp \X MonoRp : FLe(r[1], r[2])}
MonoEcc == {Zero, Half}

InitMono ==
  /\ pc = "call"
  /\ arg \in {[star |-> st, period |-> p, e |-> e, r1 |-> r[1], r2 |-> r[2]] :
                st \in ValidStars, p \in PeriodValues, e \in MonoEcc,
                r \in MonoPairs}
  /\ ret = NaN
  /\ stlr = <<>> /\ idx = 0 /\ comp = NoMap /\ star = NoStar /\ hist = <<>>

CallSmaller ==
  /\ pc = "call"
  /\ ret' = get_completeness(arg.star, arg.period, arg.r1, arg.e, TRUE)
  /\ pc' = "first"
  /\ UNCHANGED <<arg, stlr, idx, comp, star, hist>>

CallLarger ==
  /\ pc = "first"
  /\ hist' = <<ret>>
  /\ ret' = get_completeness(arg.star, arg.period, arg.r2, arg.e, TRUE)
  /\ pc' = "done"
  /\ UNCHANGED <<arg, stlr, idx, comp, star>>

NextMono == CallSmaller \/ CallLarger

SpecMono == InitMono /\ [][NextMono]_vars
(***************************************************************************)
(* The completeness map of a catalog: the cell that builds the grids and   *)
(* accumulates get_completeness over the rows of stlr.  arg.runs lists     *)
(* the catalogs with which the cell is still to be run.                    *)
(***************************************************************************)
\* The numbers of grid points along period and rp (57 and 61 in the
\* notebook).
NPeriod == 2
NRp == 2

period_rng == <<Flt(50, 0), Flt(300, 0)>>
rp_rng == <<Flt(75, -2), Flt(25, -1)>>

\* np.linspace(start, stop, num): num >= 1 points, the last one stop itself.
linspace(start, stop, num) ==
  [i \in 1..num |->
     IF i = 1 THEN start
     ELSE IF i = num THEN stop
     ELSE FAdd(FMul(Flt(i - 1, 0), FDiv(FSub(stop, start), Flt(num - 1, 0))),
               start)]

period == linspace(period_rng[1], period_rng[2], NPeriod)
rp == linspace(rp_rng[1], rp_rng[2], NRp)
\* np.meshgrid(period, rp, indexing="ij").
period_grid == [i \in 1..NPeriod |-> [j \in 1..NRp |-> period[i]]]
rp_grid == [i \in 1..NPeriod |-> [j \in 1..NRp |-> rp[j]]]

\* np.zeros_like(a).
zeros_like(a) == [i \in DOMAIN a |-> [j \in DOMAIN a[i] |-> Zero]]

\* get_completeness of one star on the grids X and Y, cell by cell.
completeness_map(s, X, Y, e, with_geom) ==
  [i \in DOMAIN X |-> [j \in DOMAIN X[i] |->
     get_completeness(s, X[i][j], Y[i][j], e, with_geom)]]
MapRaised(a) == \E i \in DOMAIN a : \E j \in DOMAIN a[i] : IsRaised(a[i][j])

\* a = b in place of a += b: the map of the last star only.
iadd_last(a, b) == b

\* a -= b in place of a += b.
iadd_sub(a, b) == [i \in DOMAIN a |-> [j \in DOMAIN a[i] |-> FSub(a[i][j], b[i][j])]]

\* a += b for two arrays of one shape.
iadd(a, b) == [i \in DOMAIN a |-> [j \in DOMAIN a[i] |-> FAdd(a[i][j], b[i][j])]]

\* The sequences that list the stars of the set S once each, in any order.
Orders(S) ==
  {f \in [1..Cardinality(S) -> S] : \A i, j \in DOMAIN f : i # j => f[i] # f[j]}
Range(f) == {f[i] : i \in DOMAIN f}

\* The stars of the catalogs that are run.
Pool == {Sun, FullDuty, FStar}

\* Two disjoint samples, then their union in some order.
SplitRuns ==
  UNION {UNION {{<<a, b, ab>> : a \in Orders(A), b \in Orders(B),
                               ab \in Orders(A \cup B)} :
                  B \in (SUBSET (Pool \ A)) \ {{}}} :
           A \in (SUBSET Pool) \ {{}}}
\* One catalog run twice.
RepeatRuns == UNION {{<<a, a>> : a \in Orders(A)} : A \in (SUBSET Pool) \ {{}}}
\* A catalog with a row that breaks the Star invariants.
FaultRuns == {<<<<Sun, s>>>> : s \in InvalidStars}

Init ==
  /\ pc = "idle"
  /\ arg \in {[runs |-> r] : r \in SplitRuns \cup RepeatRuns \cup FaultRuns}
  /\ ret = NaN
  /\ stlr = <<>>
  /\ idx = 0
  /\ comp = NoMap
  /\ star = NoStar
  /\ hist = <<>>

\* The cells that load and cut the stellar catalog: stlr is replaced.
LoadCatalog ==
  /\ pc \in {"idle", "done"}
  /\ arg.runs # <<>>
  /\ stlr' = Head(arg.runs)
  /\ arg' = [runs |-> Tail(arg.runs)]
  /\ pc' = "loaded"
  /\ UNCHANGED <<ret, idx, comp, star, hist>>

\* The build without its np.zeros_like: it goes on from the comp it finds.
StartBuildKeep ==
  /\ pc = "loaded"
  /\ comp' = IF comp = NoMap THEN zeros_like(period_grid) ELSE comp
  /\ idx' = 0
  /\ pc' = "loop"
  /\ UNCHANGED <<arg, ret, stlr, star, hist>>

\* period, rp, period_grid, rp_grid = ...; comp = np.zeros_like(period_grid).
StartBuild ==
  /\ pc = "loaded"
  /\ comp' = zeros_like(period_grid)
  /\ idx' = 0
  /\ pc' = "loop"
  /\ UNCHANGED <<arg, ret, stlr, star, hist>>

\* One iteration of "for _, star in stlr.iterrows(): comp += ...".  An
\* exception of get_completeness ends the cell, comp as it was.
LoopStepV(row, new) ==
  /\ star' = row
  /\ IF MapRaised(new)
     THEN /\ pc' = "raised"
          /\ UNCHANGED <<idx, comp>>
     ELSE /\ comp' = iadd(comp, new)
          /\ idx' = idx + 1
          /\ pc' = "loop"
  /\ UNCHANGED <<arg, ret, stlr, hist>>
LoopStep ==
  /\ pc = "loop"
  /\ idx < Len(stlr)
  /\ \E new \in {completeness_map(stlr[idx + 1], period_grid, rp_grid,
                                  Zero, TRUE)} :
       LoopStepV(stlr[idx + 1], new)

\* The loop is exhausted: the cell is done, comp is the map of stlr.
EndBuild ==
  /\ pc = "loop"
  /\ idx = Len(stlr)
  /\ pc' = "done"
  /\ hist' = Append(hist, [stlr |-> stlr, comp |-> comp])
  /\ UNCHANGED <<arg, ret, stlr, idx, comp, star>>

Next == LoadCatalog \/ StartBuild \/ LoopStep \/ EndBuild

Spec == Init /\ [][Next]_vars
(***************************************************************************)
(* The population inference: population_model, lnlike, lnprob and nll,     *)
(* called with a parameter vector theta on a completeness map comp that    *)
(* an earlier cell has built and on the detections (KOIs) of arg.kois.     *)
(***************************************************************************)
\* sum(a) of a one-dimensional array, from the left.
RECURSIVE SumFrom(_, _, _)
SumFrom(a, i, acc) ==
  IF i > Len(a) THEN acc
  ELSE CHOOSE res \in {SumFrom(a, j, t) :
                         j \in {i + 1}, t \in {FAdd(acc, a[i])}} : TRUE
\* The rows of a two-dimensional array one after the other (C order).
RECURSIVE Flatten(_, _)
Flatten(a, i) == IF i > Len(a) THEN <<>> ELSE a[i] \o Flatten(a, i + 1)
\* np.sum: 0.0 for an empty array.
sum1(a) == SumFrom(a, 1, Zero)
sum2(a) == SumFrom(Flatten(a, 1), 1, Zero)

\* rng[1] ** n1 - rng[0] ** n1 of population_model, n1 = n + 1.
pm_norm(n, rng) ==
  FSub(FPow(rng[2], FAdd(n, One)), FPow(rng[1], FAdd(n, One)))
\* pm_times with the exponent n in place of n1 = n + 1 in the numerator.
pm_times_n(v, x, n, d) == FMul(v, FDiv(FMul(FPow(x, n), n), d))
\* v * (x ** n * n1 / d): one "v *= ..." of population_model at one point.
pm_times(v, x, n, d) == FMul(v, FDiv(FMul(FPow(x, n), FAdd(n, One)), d))

\* population_model(theta, period, rp) on two arrays of one shape.
population_model(theta, P, R) ==
  CHOOSE res \in
    {[i \in DOMAIN P |-> [j \in DOMAIN P[i] |->
        pm_times(pm_times(v, P[i][j], theta[2], dp), R[i][j], theta[3], dr)]] :
       v \in {FExp(theta[1])},
       dp \in {pm_norm(theta[2], period_rng)},
       dr \in {pm_norm(theta[3], rp_rng)}} : TRUE

\* vol = np.diff(period_grid, axis=0)[:, :-1] * np.diff(rp_grid, axis=1)[:-1, :]
vol ==
  [i \in 1..(NPeriod - 1) |-> [j \in 1..(NRp - 1) |->
     FMul(FSub(period_grid[i + 1][j], period_grid[i][j]),
          FSub(rp_grid[i][j + 1], rp_grid[i][j]))]]

\* norm of lnlike: the populated map pop, averaged over the corners
\* pop[:-1, :-1] and pop[1:, 1:] of each cell, times vol, summed.
lnlike_norm(pm, cmap) ==
  CHOOSE res \in
    {sum2([i \in 1..(Len(pop) - 1) |-> [j \in 1..(Len(pop[i]) - 1) |->
             FMul(FMul(Half, FAdd(pop[i][j], pop[i + 1][j + 1])), vol[i][j])]]) :
       pop \in {[i \in DOMAIN pm |-> [j \in DOMAIN pm[i] |->
                   FMul(pm[i][j], cmap[i][j])]]}} : TRUE

\* The local ll of lnlike: the sum of the log densities at the detections
\* minus norm.
lnlike_ll(theta, cmap, kois) ==
  CHOOSE res \in
    {FSub(sum1([i \in DOMAIN at[1] |-> FLog(at[1][i])]),
          lnlike_norm(population_model(theta, period_grid, rp_grid), cmap)) :
       at \in {population_model(theta,
                                <<[i \in DOMAIN kois |-> kois[i].period]>>,
                                <<[i \in DOMAIN kois |-> kois[i].rp]>>)}} : TRUE

\* lnlike without its np.isfinite guard.
lnlike_raw(theta, cmap, kois) == lnlike_ll(theta, cmap, kois)

\* lnlike: return ll if np.isfinite(ll) else -np.inf.
lnlike(theta, cmap, kois) ==
  CHOOSE res \in {IF IsFinite(ll) THEN ll ELSE NInf :
                    ll \in {lnlike_ll(theta, cmap, kois)}} : TRUE

bounds == << <<Flt(-5, 0), Flt(5, 0)>>, <<Flt(-5, 0), Flt(5, 0)>>,
             <<Flt(-5, 0), Flt(5, 0)>> >>

\* lnprob with the closed intervals rng[0] <= t <= rng[1].
lnprob_closed(theta, cmap, kois) ==
  IF \E i \in 1..Len(bounds) :
       ~(FLe(bounds[i][1], theta[i]) /\ FLe(theta[i], bounds[i][2]))
  THEN NInf
  ELSE lnlike(theta, cmap, kois)

\* lnprob: -inf unless rng[0] < t < rng[1] for every component t.
lnprob(theta, cmap, kois) ==
  IF \E i \in 1..Len(bounds) :
       ~(FLt(bounds[i][1], theta[i]) /\ FLt(theta[i], bounds[i][2]))
  THEN NInf
  ELSE lnlike(theta, cmap, kois)

\* nll without its np.isfinite guard.
nll_raw(theta, cmap, kois) == FNeg(lnlike(theta, cmap, kois))

\* nll: return -ll if np.isfinite(ll) else 1e15.
nll(theta, cmap, kois) ==
  CHOOSE res \in {IF IsFinite(ll) THEN FNeg(ll) ELSE Flt(1, 15) :
                    ll \in {lnlike(theta, cmap, kois)}} : TRUE

\* theta_0 = (log(0.75), -0.53218, -1.5).
theta_0 == <<Flt(-28768, -5), Flt(-53218, -5), Flt(-15, -1)>>
\* Values a component of theta takes: inside the bounds, on them, outside
\* them and not finite.
ThetaValues ==
  { NaN, NInf, Flt(-6, 0), Flt(-5, 0), Flt(-1, 0), Zero, Flt(5, 0),
    Flt(6, 0), PInf }
Thetas ==
  {theta_0} \cup {[theta_0 EXCEPT ![i] = v] : i \in 1..3, v \in ThetaValues}

\* Completeness maps: a finite one and one with a NaN cell.
FlatMap(v) == [i \in 1..NPeriod |-> [j \in 1..NRp |-> v]]
CompMaps ==
  {FlatMap(Flt(1000, 0)), [FlatMap(Flt(1000, 0)) EXCEPT ![1][1] = NaN]}
\* Detections: none, one, two.
Koi(p, r) == [period |-> p, rp |-> r]
KoiLists ==
  { <<>>, <<Koi(Flt(100, 0), Flt(15, -1))>>,
    <<Koi(Flt(60, 0), Flt(9, -1)), Koi(Flt(250, 0), Flt(22, -1))>> }

InitInfer ==
  /\ pc = "call"
  /\ arg \in {[theta |-> t, kois |-> k] : t \in Thetas, k \in KoiLists}
  /\ comp \in CompMaps
  /\ ret = NaN
  /\ stlr = <<>> /\ idx = 0 /\ star = NoStar /\ hist = <<>>

\* A call of lnlike(theta); hist keeps its local ll.
CallLnlike ==
  /\ pc = "call"
  /\ ret' = lnlike(arg.theta, comp, arg.kois)
  /\ hist' = <<lnlike_ll(arg.theta, comp, arg.kois)>>
  /\ pc' = "lnlike"
  /\ UNCHANGED <<arg, stlr, idx, comp, star>>

\* A call of lnprob(theta) by the sampler; hist keeps lnlike(theta).
CallLnprob ==
  /\ pc = "call"
  /\ ret' = lnprob(arg.theta, comp, arg.kois)
  /\ hist' = <<lnlike(arg.theta, comp, arg.kois)>>
  /\ pc' = "lnprob"
  /\ UNCHANGED <<arg, stlr, idx, comp, star>>

\* A call of nll(theta) by the optimizer; hist keeps lnlike(theta).
CallNll ==
  /\ pc = "call"
  /\ ret' = nll(arg.theta, comp, arg.kois)
  /\ hist' = <<lnlike(arg.theta, comp, arg.kois)>>
  /\ pc' = "nll"
  /\ UNCHANGED <<arg, stlr, idx, comp, star>>

NextInfer == CallLnlike \/ CallLnprob \/ CallNll

SpecInfer == InitInfer /\ [][NextInfer]_vars
(***************************************************************************)
(* lnlike(theta) with no detection, koi_periods and koi_rps empty: the     *)
(* value it returns is 0 - norm.  The completeness maps are flat ones and  *)
(* maps that are zero except at one corner of the grid.                    *)
(***************************************************************************)
QuadThetas ==
  {<<f, b, a>> : f \in {Flt(-28768, -5), Zero},
                 b \in {Flt(-53218, -5), Zero, One},
                 a \in {Flt(-15, -1), Zero, One}}
\* v at the grid point (a, b), 0 elsewhere.
SpikeMap(a, b, v) ==
  [i \in 1..NPeriod |-> [j \in 1..NRp |-> IF i = a /\ j = b THEN v ELSE Zero]]
QuadMaps ==
  {FlatMap(One), FlatMap(Flt(1000, 0))}
    \cup {SpikeMap(a, b, Flt(1000, 0)) : a \in {1, NPeriod}, b \in {1, NRp}}

InitQuad ==
  /\ pc = "call"
  /\ arg \in {[theta |-> t, kois |-> <<>>] : t \in QuadThetas}
  /\ comp \in QuadMaps
  /\ ret = NaN
  /\ stlr = <<>> /\ idx = 0 /\ star = NoStar /\ hist = <<>>

NextQuad == CallLnlike

SpecQuad == InitQuad /\ [][NextQuad]_vars
(***************************************************************************)
(* A call of population_model(theta, period, rp) on the centres of a grid  *)
(* of NQuad x NQuad equal cells that covers period_rng x rp_rng.           *)
(***************************************************************************)
NQuad == 8

\* The centres of num equal cells between rng[0] and rng[1].
centres(rng, num) ==
  [i \in 1..num |->
     FAdd(rng[1], FDiv(FMul(Flt(2 * i - 1, 0), FSub(rng[2], rng[1])),
                       Flt(2 * num, 0)))]
quad_period == centres(period_rng, NQuad)
quad_rp == centres(rp_rng, NQuad)
quad_period_grid == [i \in 1..NQuad |-> [j \in 1..NQuad |-> quad_period[i]]]
quad_rp_grid == [i \in 1..NQuad |-> [j \in 1..NQuad |-> quad_rp[j]]]

\* Parameter vectors inside the bounds, no exponent equal to -1.
NormLnf0 == {Flt(-1, 0), Flt(-28768, -5), Zero, One}
NormBeta == {Flt(-2, 0), Flt(-53218, -5), Zero, Half, One}
NormAlpha == {Flt(-15, -1), Zero, Flt(5, -1), Two}

InitNorm ==
  /\ pc = "call"
  /\ arg \in {[theta |-> <<f, b, a>>] :
                f \in NormLnf0, b \in NormBeta, a \in NormAlpha}
  /\ ret = NaN
  /\ stlr = <<>> /\ idx = 0 /\ comp = NoMap /\ star = NoStar /\ hist = <<>>

CallPopulationModel ==
  /\ pc = "call"
  /\ ret' = population_model(arg.theta, quad_period_grid, quad_rp_grid)
  /\ pc' = "done"
  /\ UNCHANGED <<arg, stlr, idx, comp, star, hist>>

NextNorm == CallPopulationModel

SpecNorm == InitNorm /\ [][NextNorm]_vars
(***************************************************************************)
(* The posterior sampling cell: an emcee.EnsembleSampler is created, run   *)
(* for the burn-in, reset, and run again for the production.  Here hist is *)
(* the chain the sampler has stored (one entry per step, the positions of  *)
(* all walkers after it), arg.pos the list pos of the cell, and idx the    *)
(* number of steps the current run_mcmc has made.  A position is named by  *)
(* the step that proposed it: [phase, step, walker].                       *)
(***************************************************************************)
\* nwalkers, and the numbers of steps of the two runs (16, 1000 and 4000 in
\* the notebook).
nwalkers == 2
NBurn == 2
NProd == 2

Walkers == 1..nwalkers
Position(phase, step, w) == [phase |-> phase, step |-> step, walker |-> w]

\* pos = [r.x + 1e-5 * np.random.randn(ndim) for i in range(nwalkers)];
\* sampler = emcee.EnsembleSampler(nwalkers, ndim, lnprob): no chain yet.
InitSample ==
  /\ pc = "burnin"
  /\ arg = [pos |-> [w \in Walkers |-> Position("init", 0, w)]]
  /\ hist = <<>>
  /\ idx = 0
  /\ ret = NaN /\ stlr = <<>> /\ comp = NoMap /\ star = NoStar

\* One step of run_mcmc in the phase ph: the walkers of acc accept their
\* proposals, the others stay; the positions after the step are stored.
SampleStep(ph, acc) ==
  \E new \in {[w \in Walkers |->
                 IF w \in acc THEN Position(ph, idx + 1, w) ELSE arg.pos[w]]} :
    /\ arg' = [pos |-> new]
    /\ hist' = Append(hist, [phase |-> ph, step |-> idx + 1, coords |-> new])
    /\ idx' = idx + 1

\* pos, _, _ = sampler.run_mcmc(pos, 1000), step by step.
BurnInStep ==
  /\ pc = "burnin"
  /\ idx < NBurn
  /\ \E acc \in SUBSET Walkers : SampleStep("burnin", acc)
  /\ UNCHANGED <<pc, ret, stlr, comp, star>>

\* run_mcmc returns: pos is bound to the last positions.
BurnInReturn ==
  /\ pc = "burnin"
  /\ idx = NBurn
  /\ pc' = "reset"
  /\ UNCHANGED <<arg, ret, stlr, idx, comp, star, hist>>

\* The cell without its sampler.reset(): the chain is kept.
ResetSkipped ==
  /\ pc = "reset"
  /\ idx' = 0
  /\ pc' = "production"
  /\ UNCHANGED <<arg, ret, stlr, comp, star, hist>>

\* sampler.reset(): the stored chain and the iteration count are cleared.
Reset ==
  /\ pc = "reset"
  /\ hist' = <<>>
  /\ idx' = 0
  /\ pc' = "production"
  /\ UNCHANGED <<arg, ret, stlr, comp, star>>

\* pos, _, _ = sampler.run_mcmc(pos, 4000), step by step.
ProductionStep ==
  /\ pc = "production"
  /\ idx < NProd
  /\ \E acc \in SUBSET Walkers : SampleStep("production", acc)
  /\ UNCHANGED <<pc, ret, stlr, comp, star>>

ProductionReturn ==
  /\ pc = "production"
  /\ idx = NProd
  /\ pc' = "done"
  /\ UNCHANGED <<arg, ret, stlr, idx, comp, star, hist>>

\* sampler.flatchain: the stored positions of all walkers and steps.
RECURSIVE flatchain(_)
flatchain(chain) ==
  IF chain = <<>> THEN <<>>
  ELSE [w \in Walkers |-> [phase |-> Head(chain).phase, step |-> Head(chain).step,
                           walker |-> w, at |-> Head(chain).coords[w]]]
         \o flatchain(Tail(chain))

NextSample ==
  BurnInStep \/ BurnInReturn \/ Reset \/ ProductionStep \/ ProductionReturn

SpecSample == InitSample /\ [][NextSample]_vars
(***************************************************************************)
(* The inference functions as statements on the arrays they touch.  Here   *)
(* arg is the store of the notebook's globals, each array under its name   *)
(* (koi_periods and koi_rps as arrays of one row); a function that runs    *)
(* adds its local arrays to the store under their names, and an in-place   *)
(* statement (v *= ...) writes into the array it is applied to.  hist      *)
(* lists the calls made, with what they returned; idx counts them.         *)
(***************************************************************************)
MaxCalls == 2

GlobalNames ==
  {"comp", "period_grid", "rp_grid", "vol", "koi_periods", "koi_rps", "bounds"}
Globals(cmap, kois) ==
  [comp |-> cmap, period_grid |-> period_grid, rp_grid |-> rp_grid,
   vol |-> vol,
   koi_periods |-> <<[i \in DOMAIN kois |-> kois[i].period]>>,
   koi_rps |-> <<[i \in DOMAIN kois |-> kois[i].rp]>>,
   bounds |-> bounds]

\* The store h with the array a bound to the name n.
Bind(h, n, a) == [m \in DOMAIN h \cup {n} |-> IF m = n THEN a ELSE h[m]]
\* a *= x ** n * n1 / d, the array a updated cell by cell.
imul_pm(a, x, n, d) ==
  [i \in DOMAIN a |-> [j \in DOMAIN a[i] |-> pm_times(a[i][j], x[i][j], n, d)]]

\* population_model with "v = period" for its first statement: v is the
\* caller's array, and the in-place statements write into it.
population_model_alias(h, theta, P, R) ==
  [store |-> Bind(h, P, population_model(theta, h[P], h[R])), at |-> P]

\* population_model(theta, period, rp), period and rp the arrays named P and
\* R: v is a new array, updated in place twice and returned.
population_model_on(h, theta, P, R) ==
  CHOOSE res \in
    {[store |-> h2, at |-> "v"] :
       h2 \in {Bind(h1, "v", imul_pm(h1["v"], h1[R], theta[3],
                                     pm_norm(theta[3], rp_rng))) :
                 h1 \in {Bind(h0, "v", imul_pm(h0["v"], h0[P], theta[2],
                                               pm_norm(theta[2], period_rng))) :
                           h0 \in {Bind(h, "v",
                                        [i \in DOMAIN h[P] |->
                                           [j \in DOMAIN h[P][i] |->
                                              FMul(FExp(theta[1]), One)]])}}}} :
    TRUE

\* ll of lnlike from the two arrays population_model returned: g on the
\* grids, a at the detections.
lnlike_on_ll(g, a) ==
  FSub(sum1([i \in DOMAIN a[1] |-> FLog(a[1][i])]), g)
\* lnlike(theta): the store it leaves and the value it returns.  pop and the
\* argument of np.log are results of expressions: new arrays.
lnlike_on_ret(grid, at) ==
  CHOOSE res \in
    {[store |-> a.store, value |-> IF IsFinite(ll) THEN ll ELSE NInf] :
       a \in {at},
       ll \in {lnlike_on_ll(lnlike_norm(grid.store[grid.at], grid.store["comp"]),
                            at.store[at.at])}} : TRUE
lnlike_on(h, theta) ==
  CHOOSE res \in
    {lnlike_on_ret(grid, population_model_on(grid.store, theta,
                                             "koi_periods", "koi_rps")) :
       grid \in {population_model_on(h, theta, "period_grid", "rp_grid")}} : TRUE

\* lnprob(theta).
lnprob_on(h, theta) ==
  IF \E i \in 1..Len(h["bounds"]) :
       ~(FLt(h["bounds"][i][1], theta[i]) /\ FLt(theta[i], h["bounds"][i][2]))
  THEN [store |-> h, value |-> NInf]
  ELSE lnlike_on(h, theta)

\* nll(theta).
nll_on(h, theta) ==
  CHOOSE res \in
    {[store |-> r.store,
      value |-> IF IsFinite(r.value) THEN FNeg(r.value) ELSE Flt(1, 15)] :
       r \in {lnlike_on(h, theta)}} : TRUE

\* The detections of the calls.
PureKois == <<Koi(Flt(60, 0), Flt(9, -1)), Koi(Flt(250, 0), Flt(22, -1))>>
\* The parameter vectors of the calls: one strictly inside the bounds and
\* one on them.
PureThetas == {<<Flt(-28768, -5), Flt(-2, 0), One>>, <<Flt(5, 0), Zero, One>>}
PureMaps == {FlatMap(One), FlatMap(Flt(1000, 0))}

InitPure ==
  /\ pc = "ready"
  /\ arg \in {Globals(m, PureKois) : m \in PureMaps}
  /\ hist = <<>>
  /\ idx = 0
  /\ ret = NaN /\ stlr = <<>> /\ comp = NoMap /\ star = NoStar

\* A call fn(theta) that leaves the store r.store and returns r.value: the
\* locals of the call are dropped, the globals stay as the call left them.
Called(fn, theta, r) ==
  /\ arg' = [n \in GlobalNames |-> r.store[n]]
  /\ ret' = r.value
  /\ hist' = Append(hist, [fn |-> fn, theta |-> theta, value |-> r.value])
  /\ idx' = idx + 1
  /\ UNCHANGED <<pc, stlr, comp, star>>

PurePopulationModel ==
  /\ idx < MaxCalls
  /\ \E theta \in PureThetas :
       \E r \in {population_model_on(arg, theta, "period_grid", "rp_grid")} :
         Called("population_model", theta,
                [store |-> r.store, value |-> r.store[r.at]])
PureLnlike ==
  /\ idx < MaxCalls
  /\ \E theta \in PureThetas : Called("lnlike", theta, lnlike_on(arg, theta))
PureLnprob ==
  /\ idx < MaxCalls
  /\ \E theta \in PureThetas : Called("lnprob", theta, lnprob_on(arg, theta))
PureNll ==
  /\ idx < MaxCalls
  /\ \E theta \in PureThetas : Called("nll", theta, nll_on(arg, theta))

NextPure == PurePopulationModel \/ PureLnlike \/ PureLnprob \/ PureNll

SpecPure == InitPure /\ [][NextPure]_vars
(***************************************************************************)
(* ---------------------------- the properties --------------------------- *)
(***************************************************************************)
FAbs(x) == [x EXCEPT !.m = Abs(x.m)]
\* x and y are equal, or finite and within a few units in the last place of
\* one another: |x - y| <= 2e-4 (|x| + |y|).
Close(x, y) ==
  \/ x = y
  \/ /\ IsFinite(x) /\ IsFinite(y)
     /\ FLe(FAbs(FSub(x, y)), FMul(Flt(2, -4), FAdd(FAbs(x), FAbs(y))))
\* 0 <= x <= 1.
IsProbability(x) == FGe(x, Zero) /\ FLe(x, One)

\* C1 (as amended): get_delta(k) returns 0.84 * k^2 * (c + s*k), the linear
\* term added to c: to rounding, 0.84 c k^2 + 0.84 s k^3.
C1_GetDeltaAddsLinearTerm ==
  pc = "done" =>
    \A k \in {arg.k} :
      Close(ret, FAdd(FMul(FMul(delta_limb, delta_c), FMul(k, k)),
                      FMul(FMul(delta_limb, delta_s), FMul(k, FMul(k, k)))))
\* get_delta has returned, for k = 0.05, more than 0.84 c k^2.
C1_Witness ==
  /\ pc = "done"
  /\ arg.k = Flt(5, -2)
  /\ FGt(ret, FMul(delta_limb, FMul(delta_c, FMul(arg.k, arg.k))))
\* C1 (as claimed): get_delta(k) returns 0.84 * k^2 * (c - s*k), the linear
\* term subtracted from c.
C1_AsClaimed ==
  pc = "done" =>
    \A k \in {arg.k} :
      Close(ret, FSub(FMul(FMul(delta_limb, delta_c), FMul(k, k)),
                      FMul(FMul(delta_limb, delta_s), FMul(k, FMul(k, k)))))

\* Every component of theta is strictly between its bounds.
StrictlyInside(theta) ==
  \A i \in 1..3 : Cmp(bounds[i][1], theta[i]) = -1 /\ Cmp(theta[i], bounds[i][2]) = -1
\* Every component of theta is in the closed box given to the optimizer.
InsideBox(theta) ==
  \A i \in 1..3 : Cmp(bounds[i][1], theta[i]) \in {-1, 0}
                  /\ Cmp(theta[i], bounds[i][2]) \in {-1, 0}

\* C2 (as amended): lnprob(theta) returns lnlike(theta) when every component
\* of theta is strictly inside its interval of bounds, and -inf when one is
\* outside it, on an end of it, or NaN.
C2_LnprobOpenBox ==
  pc = "lnprob" =>
    IF StrictlyInside(arg.theta) THEN ret = hist[1] ELSE ret = NInf
\* lnprob has returned -inf for a theta with lnf0 = 5, on the bound, where
\* lnlike is finite.
C2_Witness ==
  /\ pc = "lnprob"
  /\ arg.theta[1] = Flt(5, 0)
  /\ IsFinite(hist[1])
  /\ ret = NInf
\* C2 (as claimed): lnprob(theta) returns -inf when a component of theta is
\* outside its interval of bounds or NaN, and lnlike(theta) when all are
\* inside the box given to the optimizer.
C2_AsClaimed ==
  pc = "lnprob" =>
    IF InsideBox(arg.theta) THEN ret = hist[1] ELSE ret = NInf

\* C3: nll(theta) is finite for every theta: -lnlike(theta) when lnlike(theta)
\* is finite, 1e15 otherwise.
C3_NllFinite ==
  pc = "nll" =>
    /\ IsFinite(ret)
    /\ IF IsFinite(hist[1]) THEN ret = FNeg(hist[1]) ELSE ret = Flt(1, 15)
\* nll has returned 1e15 where lnlike is -inf.
C3_Witness ==
  /\ pc = "nll"
  /\ hist[1] = NInf
  /\ ret = Flt(1, 15)

\* C4: lnlike(theta) is finite or -inf for every theta: the computed ll when
\* that is finite, -inf when it is NaN, +inf or -inf.
C4_LnlikeFiniteOrNegInf ==
  pc = "lnlike" =>
    /\ IsFinite(ret) \/ ret = NInf
    /\ IF IsFinite(hist[1]) THEN ret = hist[1] ELSE ret = NInf
\* lnlike has returned -inf where the computed ll is NaN.
C4_Witness ==
  /\ pc = "lnlike"
  /\ IsNaN(hist[1])
  /\ ret = NInf

\* C5 (as claimed): for a star that satisfies the Star invariants,
\* get_completeness(star, period, rp, 0, with_geom=False) is in [0, 1].
C5_AsClaimed ==
  (pc = "done" /\ arg.star \in ValidStars /\ arg.e = Zero /\ ~arg.with_geom)
    => IsProbability(ret)

\* C6 (as claimed): for 0 <= e < 1, get_pgeom(aor, e) is 0 for aor <= 1 and
\* 1 / (aor * (1 - e^2)) for aor > 1.
C6_AsClaimed ==
  pc = "done" =>
    /\ FLe(arg.aor, One) => ret = Zero
    /\ FGt(arg.aor, One) =>
         ret = FDiv(One, FMul(arg.aor, FSub(One, FMul(arg.e, arg.e))))

\* C7 (as claimed): get_completeness(star, period, rp, e, with_geom=True) is
\* in [0, 1] for every eccentricity 0 <= e < 1 (here for the stars whose duty
\* cycle is below 1).
C7_AsClaimed ==
  (pc = "done" /\ arg.star \in ValidStars /\ arg.with_geom
     /\ FLt(arg.star.dutycycle, One))
    => IsProbability(ret)

\* C8 (as claimed): for a star that breaks the Star invariants,
\* get_completeness returns 0: neither NaN nor an exception.
C8_AsClaimed ==
  (pc = "done" /\ arg.star \in InvalidStars) => ret = Zero

\* The builds i, j and k of hist are of two disjoint samples and of their
\* union.
IsSplit(i, j, k) ==
  /\ Range(hist[i].stlr) \cap Range(hist[j].stlr) = {}
  /\ Range(hist[k].stlr) = Range(hist[i].stlr) \cup Range(hist[j].stlr)
  /\ Len(hist[k].stlr) = Len(hist[i].stlr) + Len(hist[j].stlr)
Cells == {<<i, j>> : i \in 1..NPeriod, j \in 1..NRp}

C10_RebuildSameMap ==
  /\ \A i, j \in 1..Len(hist) :
       hist[i].stlr = hist[j].stlr => hist[i].comp = hist[j].comp
  /\ (pc = "loop" /\ idx = 0) => comp = zeros_like(period_grid)
\* A catalog of two stars has been built twice, the map not zero.
C10_Witness ==
  /\ Len(hist) = 2
  /\ hist[1].stlr = hist[2].stlr
  /\ Len(hist[1].stlr) = 2
  /\ hist[2].comp = hist[1].comp
  /\ \E c \in Cells : FGt(hist[2].comp[c[1]][c[2]], Zero)

\* The first n rows of the catalog satisfy the Star invariants.
RowsValid(n) == \A i \in 1..n : stlr[i] \in ValidStars

\* C11 (as claimed): in the accumulation loop, after n stars every cell of
\* comp is >= 0 and <= n, and a star added never lowers a cell.
C11_AsClaimed ==
  /\ []((pc \in {"loop", "done"}) =>
          \A c \in Cells : /\ FGe(comp[c[1]][c[2]], Zero)
                           /\ FLe(comp[c[1]][c[2]], Flt(idx, 0)))
  /\ [][(pc = "loop" /\ pc' = "loop") =>
          \A c \in Cells : FGe(comp'[c[1]][c[2]], comp[c[1]][c[2]])]_vars

\* C11 on the catalogs whose rows all satisfy the Star invariants: after n
\* stars every cell of comp is >= 0 and <= n, and a star added never lowers
\* a cell.
C11_MapGrowsWithCatalog ==
  /\ [](((pc \in {"loop", "done"}) /\ RowsValid(idx)) =>
          \A c \in Cells : /\ FGe(comp[c[1]][c[2]], Zero)
                           /\ FLe(comp[c[1]][c[2]], Flt(idx, 0)))
  /\ [][(pc = "loop" /\ pc' = "loop" /\ RowsValid(idx + 1)) =>
          \A c \in Cells : FGe(comp'[c[1]][c[2]], comp[c[1]][c[2]])]_vars
\* The loop has added three stars, and a cell of comp is above 0.
C11_Witness ==
  /\ pc = "loop"
  /\ idx = 3
  /\ RowsValid(idx)
  /\ \E c \in Cells : FGt(comp[c[1]][c[2]], Zero) /\ FLe(comp[c[1]][c[2]], Flt(3, 0))

\* C12 (as claimed): with star, period and eccentricity fixed,
\* get_completeness at the radius r1 is <= get_completeness at r2 >= r1.
C12_AsClaimed ==
  pc = "done" => FLe(hist[1], ret)

\* C12 where the result is a number: with star, period and eccentricity
\* fixed, get_completeness does not decrease when the planet radius grows
\* from r1 to r2; the larger radius gives a NaN exactly when the smaller one
\* does (the factors pwin and pgeom, which do not depend on the radius).
C12_MonotoneInRadius ==
  pc = "done" =>
    /\ IsNaN(hist[1]) <=> IsNaN(ret)
    /\ ~IsNaN(ret) => FLe(hist[1], ret)
\* The two calls have returned, for the radii 0.75 and 1, two values strictly
\* between 0 and 1, the second one larger.
C12_Witness ==
  /\ pc = "done"
  /\ arg.r1 = Flt(75, -2) /\ arg.r2 = One
  /\ FGt(hist[1], Zero)
  /\ FLt(hist[1], ret)
  /\ FLt(ret, One)

\* C13: when the sampling cell is done, sampler.flatchain holds exactly the
\* nwalkers * NProd samples of the production steps, one per walker and
\* step, and none stored by a burn-in step; a position in it that was not
\* proposed in production is the one pos held for that walker when the
\* burn-in returned, carried unchanged until the walker first moves.
C13_FlatchainIsProduction ==
  pc = "done" =>
    \A fc \in {flatchain(hist)} :
      /\ Len(fc) = nwalkers * NProd
      /\ \A n \in 1..Len(fc) : fc[n].phase = "production"
      /\ \A w \in Walkers, k \in 1..NProd :
           Cardinality({n \in 1..Len(fc) : fc[n].walker = w /\ fc[n].step = k}) = 1
      /\ \A n \in 1..Len(fc) :
           \/ fc[n].at.phase = "production" /\ fc[n].at.step <= fc[n].step
           \/ \A m \in 1..Len(fc) :
                (fc[m].walker = fc[n].walker /\ fc[m].step <= fc[n].step)
                  => fc[m].at = fc[n].at
\* The cell is done: in the burn-in a walker moved, and in the production it
\* stayed at first where the burn-in left it and moved later.
C13_Witness ==
  /\ pc = "done"
  /\ Len(hist) = NProd
  /\ \E w \in Walkers :
       /\ hist[1].coords[w].phase = "burnin"
       /\ hist[NProd].coords[w].phase = "production"

\* x and y are finite and within 5 percent of one another.
Near(x, y) ==
  /\ IsFinite(x) /\ IsFinite(y)
  /\ FLe(FAbs(FSub(x, y)), FMul(Flt(25, -3), FAdd(FAbs(x), FAbs(y))))
\* The midpoint-rule integral of the values v at the centres of the NQuad x
\* NQuad cells over period_rng x rp_rng.
Integral(v) ==
  FMul(sum2(v),
       FMul(FDiv(FSub(period_rng[2], period_rng[1]), Flt(NQuad, 0)),
            FDiv(FSub(rp_rng[2], rp_rng[1]), Flt(NQuad, 0))))

\* C14: for exponents beta and alpha other than -1, population_model
\* integrated over period in [50, 300] and rp in [0.75, 2.5] equals
\* exp(lnf0), to the tolerance of the quadrature.
C14_IntegratesToExpLnf0 ==
  pc = "done" => Near(Integral(ret), FExp(arg.theta[1]))
\* population_model has returned for theta_0: a density that varies over the
\* grid and integrates to about 0.75.
C14_Witness ==
  /\ pc = "done"
  /\ arg.theta = theta_0
  /\ FGt(ret[1][1], ret[NQuad][NQuad])
  /\ Near(Integral(ret), Flt(75, -2))

\* The sum over the cells of the grid of the cell volume times the mean of
\* the values v at the four corners of the cell.
FourCornerSum(v) ==
  sum2([i \in 1..(NPeriod - 1) |-> [j \in 1..(NRp - 1) |->
          FMul(FMul(Flt(25, -2),
                    FAdd(FAdd(v[i][j], v[i + 1][j + 1]),
                         FAdd(v[i][j + 1], v[i + 1][j]))),
               vol[i][j])]])
\* C15 (as claimed): norm, which lnlike returns negated when there is no
\* detection, is the sum over the cells of the grid of the cell volume times
\* a value of density * completeness that stands for the whole cell, the
\* mean over all of its corners.
C15_AsClaimed ==
  pc = "lnlike" =>
    \A pm \in {population_model(arg.theta, period_grid, rp_grid)} :
      Close(FNeg(ret),
            FourCornerSum([i \in 1..NPeriod |-> [j \in 1..NRp |->
                             FMul(pm[i][j], comp[i][j])]]))

\* C16: a call of population_model, lnlike, lnprob or nll leaves comp,
\* period_grid, rp_grid, vol, koi_periods, koi_rps and bounds as they were,
\* and two calls of one function with one theta return the same value
\* whatever was called in between.
C16_CallsLeaveGlobals ==
  /\ [][arg' = arg]_vars
  /\ [](\A i, j \in 1..Len(hist) :
          (hist[i].fn = hist[j].fn /\ hist[i].theta = hist[j].theta)
            => hist[i].value = hist[j].value)
\* lnlike has been called at a theta inside the bounds, then another function,
\* the globals being those of the start; lnlike returned a finite value.
C16_Witness ==
  /\ Len(hist) = 2
  /\ hist[1].fn = "lnlike" /\ StrictlyInside(hist[1].theta)
  /\ IsFinite(hist[1].value)
  /\ hist[2].fn = "population_model"
  /\ arg \in {Globals(m, PureKois) : m \in PureMaps}

\* The period or the radius exponent of theta is exactly -1.
ExponentMinusOne(theta) == theta[2] = Flt(-1, 0) \/ theta[3] = Flt(-1, 0)

\* C17: at a theta with beta = -1 or alpha = -1 the normalisation of
\* population_model is 0 / 0 and the computed ll is NaN; nothing is raised:
\* lnlike and lnprob return -inf and nll returns 1e15.
C17_ExponentMinusOneIsLocal ==
  ExponentMinusOne(arg.theta) =>
    /\ pc = "lnlike" => (IsNaN(hist[1]) /\ ret = NInf)
    /\ pc = "lnprob" => (hist[1] = NInf /\ ret = NInf)
    /\ pc = "nll" => (hist[1] = NInf /\ ret = Flt(1, 15))
    /\ ~IsRaised(ret)
\* lnprob has returned -inf at (log(0.75), -0.53218, -1), a theta strictly
\* inside the bounds, with two detections.
C17_Witness ==
  /\ pc = "lnprob"
  /\ arg.theta = [theta_0 EXCEPT ![3] = Flt(-1, 0)]
  /\ StrictlyInside(arg.theta)
  /\ Len(arg.kois) = 2
  /\ ret = NInf
====
